---- MODULE Spec2Model ----
(***************************************************************************)
(* The tile grid of nightcage (src/src/main.rs): the Update schedule of    *)
(* the Bevy app, its resources, the per-tile components and the deferred   *)
(* command buffers of its systems.                                         *)
(*                                                                         *)
(* One frame is one run of the Update schedule.  The systems are added as  *)
(* a plain tuple (main.rs:14-26) with no ordering constraint, so           *)
(*   - a system that touches components through Commands only queues the   *)
(*     change; the queues are applied when the schedule ends, after every  *)
(*     system of the frame has run;                                        *)
(*   - systems that share a resource run one after the other in an order   *)
(*     the scheduler picks; systems that share nothing commute.            *)
(* Resources, Local state and components borrowed mutably by a query       *)
(* (TileFlip) change at once.                                              *)
(***************************************************************************)
EXTENDS Integers, Sequences, FiniteSets, TLC

\* ---- bounds of the model ----
MaxFrames == 3
MaxArrivals == 2

\* ---- constants of the program ----
MapSize == 7
TileSize == 128
FlipStates == 4
TextureKinds == 4
FarAway == -1000
FirstTextureIndex == 1

Cells == (0 .. MapSize - 1) \X (0 .. MapSize - 1)

\* CursorPos::default(): some far away place
CursorPosDefault == <<FarAway, FarAway>>

\* TileFlip::default() of a freshly spawned TileBundle
TileFlipDefault == [x |-> FALSE, y |-> FALSE, d |-> FALSE]

\* world positions the pointer is moved to: the corner tile (0,0) at its
\* lower-left boundary, the edge tile (0,1) next to it, the interior tile
\* (3,3), and a point just right of the grid
PointerPositions ==
    { <<-448, -448>>, <<-321, -320>>, <<0, 0>>, <<448, 0>> }

\* result of Camera::viewport_to_world_2d for a CursorMoved event: a world
\* position, or nothing
NoProjection == <<>>

CursorMovedEvents ==
    { [kind |-> "CursorMoved", world |-> p] : p \in PointerPositions \cup {NoProjection} }

MouseButtonInputEvents ==
    { [kind |-> "MouseButtonInput", button |-> b, state |-> s] :
        b \in {"Left", "Right", "Middle"}, s \in {"Pressed", "Released"} }

KeyboardInputEvents ==
    { [kind |-> "KeyboardInput", key_code |-> k, state |-> s] :
        k \in {"Space", "KeyA"}, s \in {"Pressed", "Released"} }

\* the systems of the Update schedule that live in main.rs
Systems ==
    { "update_cursor_pos", "highlight_tile_labels", "apply_tile_textures",
      "cycle_tile_texture_index", "place_highlighted_tile",
      "rotate_highlighted_tile", "illuminate_tiles" }

VARIABLES
    cursor_pos,               \* Res<CursorPos>
    next_tile_texture_index,  \* Res<NextTileTextureIndex>
    flips,                    \* Local<u32> of rotate_highlighted_tile
    HighlightedLabel,         \* tiles that carry the HighlightedLabel component
    IlluminatedLabel,         \* tiles that carry the IlluminatedLabel component
    TileType,                 \* tile -> texture_index, for tiles with a TileType
    TileFlip,                 \* tile -> [x, y, d]
    TileColor,                \* tile -> color
    TileTextureIndex,         \* tile -> texture index shown
    cursor_in_map_pos,        \* highlight_tile_labels: the position it resolved
    highlight_cmds,           \* Commands queued by highlight_tile_labels
    place_cmds,               \* Commands queued by place_highlighted_tile
    illuminate_cmds,          \* Commands queued by illuminate_tiles
    texture_cmds,             \* Commands queued by apply_tile_textures
    arrived,                  \* input events of this frame, in arrival order
    ran,                      \* systems that have run in this frame
    frame                     \* number of completed frames

vars ==
    << cursor_pos, next_tile_texture_index, flips, HighlightedLabel,
       IlluminatedLabel, TileType, TileFlip, TileColor, TileTextureIndex,
       cursor_in_map_pos, highlight_cmds, place_cmds, illuminate_cmds,
       texture_cmds, arrived, ran, frame >>

\* ---- pure helpers ----

\* get_tilemap_center_transform: the translation that centres the map, minus
\* half the distance between the centres of the first and the last tile
MapTranslation == - (((MapSize - 1) * TileSize) \div 2)

\* map_transform.compute_matrix().inverse() * cursor_pos: a pure translation
CursorInMapPos(world) == << world[1] - MapTranslation, world[2] - MapTranslation >>

\* variant: plain floor division, without the half tile that puts the tile
\* centres on the multiples of the tile size
FromWorldPosNoHalfTile(local) ==
    LET x == local[1] \div TileSize
        y == local[2] \div TileSize
    IN  IF x >= 0 /\ x < MapSize /\ y >= 0 /\ y < MapSize THEN { <<x, y>> } ELSE {}

\* variant: an index below 0 is not rejected
FromWorldPosNoLowerBound(local) ==
    LET x == (2 * local[1] + TileSize) \div (2 * TileSize)
        y == (2 * local[2] + TileSize) \div (2 * TileSize)
    IN  IF x < MapSize /\ y < MapSize THEN { <<x, y>> } ELSE {}

\* TilePos::from_world_pos for a square map: floor(p / grid_size + 0.5) on each
\* axis, None when an index is outside the map.  Option as a set of <= 1 tile.
FromWorldPos(local) ==
    LET x == (2 * local[1] + TileSize) \div (2 * TileSize)
        y == (2 * local[2] + TileSize) \div (2 * TileSize)
    IN  IF x >= 0 /\ x < MapSize /\ y >= 0 /\ y < MapSize THEN { <<x, y>> } ELSE {}

\* variant: the tile itself counts as a neighbour
SquareNeighborsWithSelf(tile_pos) ==
    { n \in { tile_pos,
              << tile_pos[1] + 1, tile_pos[2] >>, << tile_pos[1] - 1, tile_pos[2] >>,
              << tile_pos[1], tile_pos[2] + 1 >>, << tile_pos[1], tile_pos[2] - 1 >> } :
        n \in Cells }

\* Neighbors::get_square_neighboring_positions(tile_pos, map_size, false):
\* the orthogonal neighbours that exist in the map
SquareNeighbors(tile_pos) ==
    { n \in { << tile_pos[1] + 1, tile_pos[2] >>, << tile_pos[1] - 1, tile_pos[2] >>,
              << tile_pos[1], tile_pos[2] + 1 >>, << tile_pos[1], tile_pos[2] - 1 >> } :
        n \in Cells }

\* iteration of a query over a set of entities, in some fixed order
RECURSIVE QueryIter(_)
QueryIter(S) ==
    IF S = {} THEN << >>
    ELSE LET e == CHOOSE t \in S : TRUE IN << e >> \o QueryIter(S \ {e})

\* EventReader<E>::read(): the events of one type, in arrival order
Read(kind) == SelectSeq(arrived, LAMBDA e : e.kind = kind)

NoHighlightCmds ==
    [ remove_highlighted |-> {}, remove_illuminated |-> {},
      insert_highlighted |-> {}, insert_illuminated |-> {} ]

NoIlluminateCmds == [ orange_red |-> {}, white |-> {} ]

NoTextureCmds == [ t \in {} |-> 0 ]

Init ==
    /\ cursor_pos = CursorPosDefault
    /\ next_tile_texture_index = FirstTextureIndex
    /\ flips = 0
    /\ HighlightedLabel = {}
    /\ IlluminatedLabel = {}
    /\ TileType = [ t \in {} |-> 0 ]
    /\ TileFlip = [ t \in Cells |-> TileFlipDefault ]
    /\ TileColor = [ t \in Cells |-> "WHITE" ]
    /\ TileTextureIndex = [ t \in Cells |-> 0 ]
    /\ cursor_in_map_pos = CursorInMapPos(CursorPosDefault)
    /\ highlight_cmds = NoHighlightCmds
    /\ place_cmds = << >>
    /\ illuminate_cmds = NoIlluminateCmds
    /\ texture_cmds = NoTextureCmds
    /\ arrived = << >>
    /\ ran = {}
    /\ frame = 0

\* ---- the schedule ----

\* The systems a system waits for.  Only systems that share a resource are
\* ordered by the scheduler at run time, in either order: update_cursor_pos
\* and highlight_tile_labels (CursorPos); apply_tile_textures,
\* cycle_tile_texture_index and place_highlighted_tile (NextTileTextureIndex).
\* The other pairs commute, so the model runs the groups one after the other.
RunsAfter(system) ==
    CASE system \in { "update_cursor_pos", "highlight_tile_labels" } -> {}
      [] system \in { "apply_tile_textures", "cycle_tile_texture_index",
                      "place_highlighted_tile" } ->
            { "update_cursor_pos", "highlight_tile_labels" }
      [] system = "rotate_highlighted_tile" ->
            Systems \ { "rotate_highlighted_tile", "illuminate_tiles" }
      [] system = "illuminate_tiles" -> Systems \ { "illuminate_tiles" }

CanRun(system) ==
    /\ frame < MaxFrames
    /\ system \notin ran
    /\ RunsAfter(system) \subseteq ran

\* the window delivers an input event before the frame's update starts
Deliver(event) ==
    /\ frame < MaxFrames
    /\ ran = {}
    /\ Len(arrived) < MaxArrivals
    /\ arrived' = Append(arrived, event)
    /\ UNCHANGED << cursor_pos, next_tile_texture_index, flips, HighlightedLabel,
                    IlluminatedLabel, TileType, TileFlip, TileColor,
                    TileTextureIndex, cursor_in_map_pos, highlight_cmds,
                    place_cmds, illuminate_cmds, texture_cmds, ran, frame >>

DeliverCursorMoved == \E event \in CursorMovedEvents : Deliver(event)

DeliverMouseButtonInput == \E event \in MouseButtonInputEvents : Deliver(event)

DeliverKeyboardInput == \E event \in KeyboardInputEvents : Deliver(event)

\* ---- update_cursor_pos ----

\* the loop over the CursorMoved events: the last projected position wins
RECURSIVE CursorPosAfter(_, _)
CursorPosAfter(events, pos) ==
    IF events = << >> THEN pos
    ELSE CursorPosAfter(Tail(events),
                        IF Head(events).world # NoProjection
                        THEN Head(events).world ELSE pos)

update_cursor_pos ==
    /\ CanRun("update_cursor_pos")
    /\ cursor_pos' = CursorPosAfter(Read("CursorMoved"), cursor_pos)
    /\ ran' = ran \cup { "update_cursor_pos" }
    /\ UNCHANGED << next_tile_texture_index, flips, HighlightedLabel,
                    IlluminatedLabel, TileType, TileFlip, TileColor,
                    TileTextureIndex, cursor_in_map_pos, highlight_cmds,
                    place_cmds, illuminate_cmds, texture_cmds, arrived, frame >>

\* ---- highlight_tile_labels ----

\* variant: the illuminated tiles of the last frame are not cleared
HighlightCommandsKeepIlluminated(highlighted, illuminated, tile_pos) ==
    [ remove_highlighted |-> highlighted,
      remove_illuminated |-> {},
      insert_highlighted |-> tile_pos,
      insert_illuminated |-> UNION { SquareNeighbors(t) : t \in tile_pos } ]

\* variant: the highlighted tile of the last frame is not cleared
HighlightCommandsKeepHighlighted(highlighted, illuminated, tile_pos) ==
    [ remove_highlighted |-> {},
      remove_illuminated |-> illuminated,
      insert_highlighted |-> tile_pos,
      insert_illuminated |-> UNION { SquareNeighbors(t) : t \in tile_pos } ]

\* the commands it queues: remove both labels from every tile that has them,
\* then label the tile under the cursor and its neighbours
HighlightCommands(highlighted, illuminated, tile_pos) ==
    [ remove_highlighted |-> highlighted,
      remove_illuminated |-> illuminated,
      insert_highlighted |-> tile_pos,
      insert_illuminated |-> UNION { SquareNeighbors(t) : t \in tile_pos } ]

highlight_tile_labels ==
    /\ CanRun("highlight_tile_labels")
    /\ cursor_in_map_pos' = CursorInMapPos(cursor_pos)
    /\ highlight_cmds' =
          HighlightCommands(HighlightedLabel, IlluminatedLabel,
                            FromWorldPos(CursorInMapPos(cursor_pos)))
    /\ ran' = ran \cup { "highlight_tile_labels" }
    /\ UNCHANGED << cursor_pos, next_tile_texture_index, flips, HighlightedLabel,
                    IlluminatedLabel, TileType, TileFlip, TileColor,
                    TileTextureIndex, place_cmds, illuminate_cmds, texture_cmds,
                    arrived, frame >>

\* ---- place_highlighted_tile ----

\* variant: the insert carries the index after the current one
PlaceInsertsNextIndex(entities, texture_index) ==
    [ i \in 1 .. Len(entities) |->
        [ entity |-> entities[i],
          texture_index |-> (texture_index % TextureKinds) + 1 ] ]

\* one insert of TileType per highlighted tile
PlaceInserts(entities, texture_index) ==
    [ i \in 1 .. Len(entities) |->
        [ entity |-> entities[i], texture_index |-> texture_index ] ]

\* variant: any pressed button places
RECURSIVE PlaceCommandsAnyButton(_, _, _)
PlaceCommandsAnyButton(events, entities, texture_index) ==
    IF events = << >> THEN << >>
    ELSE LET rest == PlaceCommandsAnyButton(Tail(events), entities, texture_index)
         IN  IF Head(events).state = "Pressed"
             THEN PlaceInserts(entities, texture_index) \o rest
             ELSE rest

\* the loop over the MouseButtonInput events
RECURSIVE PlaceCommands(_, _, _)
PlaceCommands(events, entities, texture_index) ==
    IF events = << >> THEN << >>
    ELSE LET rest == PlaceCommands(Tail(events), entities, texture_index)
         IN  IF Head(events).button = "Left" /\ Head(events).state = "Pressed"
             THEN PlaceInserts(entities, texture_index) \o rest
             ELSE rest

place_highlighted_tile ==
    /\ CanRun("place_highlighted_tile")
    /\ place_cmds' = PlaceCommands(Read("MouseButtonInput"),
                                   QueryIter(HighlightedLabel),
                                   next_tile_texture_index)
    /\ ran' = ran \cup { "place_highlighted_tile" }
    /\ UNCHANGED << cursor_pos, next_tile_texture_index, flips, HighlightedLabel,
                    IlluminatedLabel, TileType, TileFlip, TileColor,
                    TileTextureIndex, cursor_in_map_pos, highlight_cmds,
                    illuminate_cmds, texture_cmds, arrived, frame >>

\* ---- rotate_highlighted_tile ----

\* the match on *flips: the flip flags of each of the four orientations
FlipOf(n) ==
    CASE n = 0 -> [x |-> FALSE, y |-> FALSE, d |-> FALSE]
      [] n = 1 -> [x |-> TRUE, y |-> FALSE, d |-> TRUE]
      [] n = 2 -> [x |-> TRUE, y |-> TRUE, d |-> FALSE]
      [] OTHER -> [x |-> FALSE, y |-> TRUE, d |-> TRUE]

\* variant: the tile gets the orientation of the counter before the advance
RotateTileStaleCounter(st, entity) ==
    LET n == (st.flips + 1) % FlipStates
    IN  [ flips |-> n,
          tile_flips |-> [ st.tile_flips EXCEPT ![entity] = FlipOf(st.flips) ] ]

\* the body of the loop over the highlighted tiles: advance the counter, then
\* write the counter's orientation to the tile
RotateTile(st, entity) ==
    LET n == (st.flips + 1) % FlipStates
    IN  [ flips |-> n, tile_flips |-> [ st.tile_flips EXCEPT ![entity] = FlipOf(n) ] ]

RECURSIVE RotateTiles(_, _)
RotateTiles(st, entities) ==
    IF entities = << >> THEN st
    ELSE RotateTiles(RotateTile(st, Head(entities)), Tail(entities))

\* variant: any pressed button rotates
RECURSIVE RotateEventsAnyButton(_, _, _)
RotateEventsAnyButton(st, events, entities) ==
    IF events = << >> THEN st
    ELSE RotateEventsAnyButton(
             IF Head(events).state = "Pressed"
             THEN RotateTiles(st, entities) ELSE st,
             Tail(events), entities)

\* variant: the counter advances once per right press, outside the loop over
\* the highlighted tiles
RECURSIVE RotateEventsCounterPerPress(_, _, _)
RotateEventsCounterPerPress(st, events, entities) ==
    IF events = << >> THEN st
    ELSE RotateEventsCounterPerPress(
             IF Head(events).button = "Right" /\ Head(events).state = "Pressed"
             THEN LET n == (st.flips + 1) % FlipStates
                  IN  [ flips |-> n,
                        tile_flips |->
                           [ t \in Cells |->
                               IF \E i \in DOMAIN entities : entities[i] = t
                               THEN FlipOf(n) ELSE st.tile_flips[t] ] ]
             ELSE st,
             Tail(events), entities)

\* the loop over the MouseButtonInput events
RECURSIVE RotateEvents(_, _, _)
RotateEvents(st, events, entities) ==
    IF events = << >> THEN st
    ELSE RotateEvents(
             IF Head(events).button = "Right" /\ Head(events).state = "Pressed"
             THEN RotateTiles(st, entities) ELSE st,
             Tail(events), entities)

rotate_highlighted_tile ==
    /\ CanRun("rotate_highlighted_tile")
    /\ LET st == RotateEvents([ flips |-> flips, tile_flips |-> TileFlip ],
                              Read("MouseButtonInput"),
                              QueryIter(HighlightedLabel))
       IN  /\ flips' = st.flips
           /\ TileFlip' = st.tile_flips
    /\ ran' = ran \cup { "rotate_highlighted_tile" }
    /\ UNCHANGED << cursor_pos, next_tile_texture_index, HighlightedLabel,
                    IlluminatedLabel, TileType, TileColor, TileTextureIndex,
                    cursor_in_map_pos, highlight_cmds, place_cmds,
                    illuminate_cmds, texture_cmds, arrived, frame >>

\* ---- illuminate_tiles ----

\* variant: tiles that lost their illumination are not set back to white
IlluminateCommandsNoReset(illuminated) ==
    [ orange_red |-> illuminated, white |-> {} ]

IlluminateCommands(illuminated) ==
    [ orange_red |-> illuminated, white |-> Cells \ illuminated ]

illuminate_tiles ==
    /\ CanRun("illuminate_tiles")
    /\ illuminate_cmds' = IlluminateCommands(IlluminatedLabel)
    /\ ran' = ran \cup { "illuminate_tiles" }
    /\ UNCHANGED << cursor_pos, next_tile_texture_index, flips, HighlightedLabel,
                    IlluminatedLabel, TileType, TileFlip, TileColor,
                    TileTextureIndex, cursor_in_map_pos, highlight_cmds,
                    place_cmds, texture_cmds, arrived, frame >>

\* ---- apply_tile_textures ----

\* variant: a highlighted tile shows its own type too
TextureCommandsNoPreview(highlighted, tile_types, next_index) ==
    [ t \in Cells |-> IF t \in DOMAIN tile_types THEN tile_types[t] ELSE 0 ]

\* one insert of TileTextureIndex per tile: the next index on a highlighted
\* tile, the tile's type elsewhere, 0 for a tile without a type
TextureCommands(highlighted, tile_types, next_index) ==
    [ t \in Cells |->
        IF t \in highlighted THEN next_index
        ELSE IF t \in DOMAIN tile_types THEN tile_types[t]
        ELSE 0 ]

apply_tile_textures ==
    /\ CanRun("apply_tile_textures")
    /\ texture_cmds' = TextureCommands(HighlightedLabel, TileType,
                                       next_tile_texture_index)
    /\ ran' = ran \cup { "apply_tile_textures" }
    /\ UNCHANGED << cursor_pos, next_tile_texture_index, flips, HighlightedLabel,
                    IlluminatedLabel, TileType, TileFlip, TileColor,
                    TileTextureIndex, cursor_in_map_pos, highlight_cmds,
                    place_cmds, illuminate_cmds, arrived, frame >>

\* ---- cycle_tile_texture_index ----

\* variant: a zero-based cycle
NextIndexZeroBased(index) == (index + 1) % TextureKinds

\* NextTileTextureIndex::next
NextIndex(index) == (index % TextureKinds) + 1

\* variant: a release of the space key advances the cursor too
RECURSIVE CycleEventsAnyState(_, _)
CycleEventsAnyState(index, events) ==
    IF events = << >> THEN index
    ELSE CycleEventsAnyState(
             IF Head(events).key_code = "Space" THEN NextIndex(index) ELSE index,
             Tail(events))

\* the loop over the KeyboardInput events
RECURSIVE CycleEvents(_, _)
CycleEvents(index, events) ==
    IF events = << >> THEN index
    ELSE CycleEvents(
             IF Head(events).state = "Pressed" /\ Head(events).key_code = "Space"
             THEN NextIndex(index) ELSE index,
             Tail(events))

cycle_tile_texture_index ==
    /\ CanRun("cycle_tile_texture_index")
    /\ next_tile_texture_index' =
          CycleEvents(next_tile_texture_index, Read("KeyboardInput"))
    /\ ran' = ran \cup { "cycle_tile_texture_index" }
    /\ UNCHANGED << cursor_pos, flips, HighlightedLabel, IlluminatedLabel,
                    TileType, TileFlip, TileColor, TileTextureIndex,
                    cursor_in_map_pos, highlight_cmds, place_cmds,
                    illuminate_cmds, texture_cmds, arrived, frame >>

\* ---- the end of the schedule: the queued commands are applied ----

\* variant: an insert on a tile that has a type already moves that type on
RECURSIVE ApplyPlaceAdvancing(_, _)
ApplyPlaceAdvancing(tile_types, cmds) ==
    IF cmds = << >> THEN tile_types
    ELSE ApplyPlaceAdvancing(
             [ t \in DOMAIN tile_types \cup { Head(cmds).entity } |->
                 IF t # Head(cmds).entity THEN tile_types[t]
                 ELSE IF t \in DOMAIN tile_types
                      THEN (tile_types[t] % TextureKinds) + 1
                      ELSE Head(cmds).texture_index ],
             Tail(cmds))

\* the inserts of TileType, in the order they were queued
RECURSIVE ApplyPlace(_, _)
ApplyPlace(tile_types, cmds) ==
    IF cmds = << >> THEN tile_types
    ELSE ApplyPlace(
             [ t \in DOMAIN tile_types \cup { Head(cmds).entity } |->
                 IF t = Head(cmds).entity THEN Head(cmds).texture_index
                 ELSE tile_types[t] ],
             Tail(cmds))

\* the removes of a label, then its inserts
ApplyLabel(labelled, removed, inserted) == (labelled \ removed) \cup inserted

ApplyColor(colors, cmds) ==
    [ t \in Cells |->
        IF t \in cmds.orange_red THEN "ORANGE_RED"
        ELSE IF t \in cmds.white THEN "WHITE"
        ELSE colors[t] ]

ApplyTexture(indices, cmds) ==
    [ t \in Cells |-> IF t \in DOMAIN cmds THEN cmds[t] ELSE indices[t] ]

ApplyDeferred ==
    /\ ran = Systems
    /\ HighlightedLabel' =
          ApplyLabel(HighlightedLabel, highlight_cmds.remove_highlighted,
                     highlight_cmds.insert_highlighted)
    /\ IlluminatedLabel' =
          ApplyLabel(IlluminatedLabel, highlight_cmds.remove_illuminated,
                     highlight_cmds.insert_illuminated)
    /\ TileType' = ApplyPlace(TileType, place_cmds)
    /\ TileColor' = ApplyColor(TileColor, illuminate_cmds)
    /\ TileTextureIndex' = ApplyTexture(TileTextureIndex, texture_cmds)
    /\ highlight_cmds' = NoHighlightCmds
    /\ place_cmds' = << >>
    /\ illuminate_cmds' = NoIlluminateCmds
    /\ texture_cmds' = NoTextureCmds
    /\ arrived' = << >>
    /\ ran' = {}
    /\ frame' = frame + 1
    /\ UNCHANGED << cursor_pos, next_tile_texture_index, flips, TileFlip,
                    cursor_in_map_pos >>

Next ==
    \/ DeliverCursorMoved
    \/ DeliverMouseButtonInput
    \/ DeliverKeyboardInput
    \/ update_cursor_pos
    \/ highlight_tile_labels
    \/ apply_tile_textures
    \/ cycle_tile_texture_index
    \/ place_highlighted_tile
    \/ rotate_highlighted_tile
    \/ illuminate_tiles
    \/ ApplyDeferred

Spec == Init /\ [][Next]_vars

\* ---- vocabulary of the properties ----

LeftPressed(e) ==
    e.kind = "MouseButtonInput" /\ e.button = "Left" /\ e.state = "Pressed"

RightPressed(e) ==
    e.kind = "MouseButtonInput" /\ e.button = "Right" /\ e.state = "Pressed"

SpacePressed(e) ==
    e.kind = "KeyboardInput" /\ e.key_code = "Space" /\ e.state = "Pressed"

Arrivals(P(_)) == { i \in DOMAIN arrived : P(arrived[i]) }

\* the tiles place_highlighted_tile has queued an insert for
PlaceTargets == { place_cmds[i].entity : i \in DOMAIN place_cmds }

\* the grid covers the world square of side MapSize * TileSize around the origin
GridHalf == (MapSize * TileSize) \div 2

\* the tile whose area contains a world position, if any
CellContaining(world) ==
    { c \in Cells :
        \A a \in 1 .. 2 :
            /\ c[a] * TileSize - GridHalf <= world[a]
            /\ world[a] < (c[a] + 1) * TileSize - GridHalf }

\* the cursor value after k advances: 1,2,3,4,1,2,...
AdvancedBy(index, k) == ((index - 1 + k) % TextureKinds) + 1

\* the orientation 0..3 that a tile's flip flags stand for
RotationState(flip) ==
    CASE flip = [x |-> FALSE, y |-> FALSE, d |-> FALSE] -> 0
      [] flip = [x |-> TRUE, y |-> FALSE, d |-> TRUE] -> 1
      [] flip = [x |-> TRUE, y |-> TRUE, d |-> FALSE] -> 2
      [] flip = [x |-> FALSE, y |-> TRUE, d |-> TRUE] -> 3
      [] OTHER -> -1

\* the orthogonal neighbours of a tile, by distance
Adjacent(h) ==
    { c \in Cells :
        LET dx == IF c[1] >= h[1] THEN c[1] - h[1] ELSE h[1] - c[1]
            dy == IF c[2] >= h[2] THEN c[2] - h[2] ELSE h[2] - c[2]
        IN  dx + dy = 1 }

\* the number of sides of the grid a tile touches
BordersTouched(h) ==
    Cardinality({ a \in 1 .. 2 : h[a] = 0 }) + Cardinality({ a \in 1 .. 2 : h[a] = MapSize - 1 })

\* ---- C1 ----
\* C1: when every system of a frame has run and a left press was among the
\* frame's events, the tiles place_highlighted_tile acted on are the tiles
\* highlight_tile_labels resolved as hovered in that same frame.
C1_PressActsOnThisFramesHover ==
    (ran = Systems /\ Arrivals(LeftPressed) # {})
        => PlaceTargets = highlight_cmds.insert_highlighted

\* ---- C2 ----
\* C2: at the end of a frame the highlighted tile is exactly the tile that
\* contains the latest pointer position, and with the pointer off the grid no
\* tile is highlighted or illuminated.
C2_HoverFollowsLatestPointer ==
    (ran = {} /\ frame > 0)
        => /\ HighlightedLabel = CellContaining(cursor_pos)
           /\ CellContaining(cursor_pos) = {} => IlluminatedLabel = {}

\* ---- C3 ----
\* the arrival position of the k-th left press of the frame
ArrivalOfLeftPress(k) ==
    CHOOSE i \in Arrivals(LeftPressed) :
        Cardinality({ j \in Arrivals(LeftPressed) : j < i }) = k - 1

SpacePressesAfter(i) == Cardinality({ j \in Arrivals(SpacePressed) : j > i })

\* C3: events of one frame take effect in arrival order across kinds: the
\* index a left press places is the cursor as advanced by exactly the space
\* presses that arrived before it, so advancing it by the space presses that
\* arrived after it gives the cursor at the end of the frame.
C3_ArrivalOrderAcrossKinds ==
    ran = Systems =>
        \A c \in DOMAIN place_cmds :
            LET n == Cardinality(HighlightedLabel)
                i == ArrivalOfLeftPress(((c - 1) \div n) + 1)
            IN  AdvancedBy(place_cmds[c].texture_index, SpacePressesAfter(i))
                    = next_tile_texture_index

\* ---- C4 ----
\* C4: a processed left press queues, for every highlighted tile and for no
\* other tile, an insert of the current cursor value, and the end of the
\* frame gives exactly the targeted tiles the queued value.
C4_PlaceSetsCursorValue ==
    [][ /\ (place_highlighted_tile /\ Arrivals(LeftPressed) # {}) =>
              /\ { place_cmds'[i].entity : i \in DOMAIN place_cmds' } = HighlightedLabel
              /\ \A i \in DOMAIN place_cmds' :
                    place_cmds'[i].texture_index = next_tile_texture_index
        /\ ApplyDeferred =>
              \A c \in Cells :
                 IF c \in PlaceTargets
                 THEN /\ c \in DOMAIN TileType'
                      /\ \E i \in DOMAIN place_cmds :
                            /\ place_cmds[i].entity = c
                            /\ TileType'[c] = place_cmds[i].texture_index
                 ELSE /\ c \in DOMAIN TileType' <=> c \in DOMAIN TileType
                      /\ c \in DOMAIN TileType => TileType'[c] = TileType[c]
      ]_vars

\* two tiles carry the types placed on them under different cursor values
C4_Witness ==
    \E c1, c2 \in DOMAIN TileType :
        /\ TileType[c1] = 1
        /\ TileType[c2] = 2
        /\ HighlightedLabel = { c2 }

\* ---- C5 ----
FourRightPresses ==
    [ i \in 1 .. FlipStates |->
        [kind |-> "MouseButtonInput", button |-> "Right", state |-> "Pressed"] ]

\* C5: from any reachable state, four right presses on the highlighted tile
\* leave that tile's orientation as it was before the first of them.
C5_FourRotationsRestore ==
    \A h \in HighlightedLabel :
        RotateEvents([ flips |-> flips, tile_flips |-> TileFlip ],
                     FourRightPresses, QueryIter(HighlightedLabel)).tile_flips[h]
            = TileFlip[h]

\* ---- C6 ----
\* C6: a run of rotate_highlighted_tile over k right presses with a tile
\* highlighted advances the one counter by k modulo 4 and leaves on that tile
\* the orientation of the counter's new value, whatever the tile had before;
\* no other tile changes.
C6_SharedRotationCounter ==
    [][ rotate_highlighted_tile =>
          LET k == Cardinality(Arrivals(RightPressed))
          IN  /\ \A h \in HighlightedLabel :
                    /\ flips' = (flips + k) % FlipStates
                    /\ k > 0 => RotationState(TileFlip'[h]) = flips'
              /\ HighlightedLabel = {} => flips' = flips
              /\ \A c \in Cells \ HighlightedLabel : TileFlip'[c] = TileFlip[c]
      ]_vars

\* a tile that was never at orientation 1 is at orientation 2 after its
\* first rotation, because another tile was rotated before it
C6_Witness ==
    /\ flips = 2
    /\ \E c2 \in HighlightedLabel :
          /\ RotationState(TileFlip[c2]) = 2
          /\ \E c1 \in Cells : RotationState(TileFlip[c1]) = 1

\* ---- C7 ----
\* C7: no step removes a tile's type, and a tile's type changes only when the
\* frame's commands are applied, a left press was among the frame's events and
\* the tile was highlighted when it was processed.
C7_TypePersists ==
    [][ /\ DOMAIN TileType \subseteq DOMAIN TileType'
        /\ \A c \in DOMAIN TileType' :
              (c \notin DOMAIN TileType \/ TileType'[c] # TileType[c]) =>
                  /\ ran = Systems
                  /\ ran' = {}
                  /\ c \in HighlightedLabel
                  /\ Arrivals(LeftPressed) # {}
      ]_vars

\* a placed tile keeps its type through a frame in which another tile is
\* rotated and the cursor has moved on
C7_Witness ==
    /\ next_tile_texture_index # 1
    /\ flips > 0
    /\ \E c \in DOMAIN TileType :
          /\ TileType[c] = 1
          /\ c \notin HighlightedLabel
          /\ HighlightedLabel # {}

\* ---- C8 ----
\* C8: the cursor starts at 1, is always within 1..4, and changes only in
\* cycle_tile_texture_index, which moves it along 1,2,3,4,1,... by one place
\* per space press of the frame.
C8_CursorCycles ==
    /\ next_tile_texture_index = 1
    /\ [](next_tile_texture_index \in 1 .. 4)
    /\ [][ next_tile_texture_index' =
             IF "cycle_tile_texture_index" \in ran' \ ran
             THEN AdvancedBy(next_tile_texture_index,
                             Cardinality(Arrivals(SpacePressed)))
             ELSE next_tile_texture_index
         ]_vars

\* the cursor has just wrapped from 4 to 1
C8_Witness ==
    /\ "cycle_tile_texture_index" \in ran
    /\ Arrivals(SpacePressed) # {}
    /\ next_tile_texture_index = 1

\* ---- C9 ----
\* C9: either no tile is highlighted and none illuminated, or one tile is
\* highlighted and the illuminated tiles are exactly its orthogonal neighbours
\* inside the grid: 2 at a corner, 3 on an edge, 4 in the interior.
C9_IlluminatedAreNeighbours ==
    \/ HighlightedLabel = {} /\ IlluminatedLabel = {}
    \/ \E h \in HighlightedLabel :
          /\ HighlightedLabel = { h }
          /\ IlluminatedLabel = Adjacent(h)
          /\ Cardinality(IlluminatedLabel) = 4 - BordersTouched(h)

\* the hover went from the corner (0,0) to the edge tile (0,1): (1,0) still
\* shows the colour of its illumination but is no longer illuminated
C9_Witness ==
    /\ HighlightedLabel = { <<0, 1>> }
    /\ Cardinality(IlluminatedLabel) = 3
    /\ TileColor[<<1, 0>>] = "ORANGE_RED"
    /\ <<1, 0>> \notin IlluminatedLabel

\* ---- C10 ----
\* the world position highlight_tile_labels resolved in its last run
ResolvedWorldPos ==
    << cursor_in_map_pos[1] + MapTranslation, cursor_in_map_pos[2] + MapTranslation >>

InsideGrid(world) ==
    \A a \in 1 .. 2 : - GridHalf <= world[a] /\ world[a] < GridHalf

\* C10: at most one tile is highlighted, and once a frame's commands are
\* applied none is when the position highlight_tile_labels used lies outside
\* the grid.
C10_AtMostOneHovered ==
    /\ Cardinality(HighlightedLabel) <= 1
    /\ (frame > 0 /\ "highlight_tile_labels" \notin ran /\ ~ InsideGrid(ResolvedWorldPos))
          => HighlightedLabel = {}

\* the pointer left the grid after hovering a tile
C10_Witness ==
    /\ frame > 0
    /\ "highlight_tile_labels" \notin ran
    /\ ResolvedWorldPos = <<448, 0>>
    /\ HighlightedLabel = {}
    /\ \E c \in Cells : TileColor[c] = "ORANGE_RED"

\* ---- C11 ----
\* C11: at the end of a frame a tile shows the highlight colour exactly when it
\* is illuminated by that frame's hover result, the neutral colour otherwise.
C11_ColorFollowsIllumination ==
    (ran = {} /\ frame > 0) =>
        \A c \in Cells : TileColor[c] = "ORANGE_RED" <=> c \in IlluminatedLabel

\* ---- C12 ----
\* the placed type of a tile, 0 for a tile without one
TypeOrZero(tile_types, c) == IF c \in DOMAIN tile_types THEN tile_types[c] ELSE 0

\* C12 as stated: at the end of a frame every tile, highlighted or not, shows
\* its placed type, 0 without one.
C12_TextureIsPlacedType ==
    (ran = {} /\ frame > 0) =>
        \A c \in Cells : TileTextureIndex[c] = TypeOrZero(TileType, c)

\* C12 as amended: a tile that is not highlighted when apply_tile_textures runs
\* shows its placed type at the end of that frame, 0 without one; a tile that
\* is highlighted at that point shows the cursor value apply_tile_textures read.
C12_TextureIsTypeOrPreview ==
    [][ /\ apply_tile_textures =>
              \A c \in HighlightedLabel : texture_cmds'[c] = next_tile_texture_index
        /\ ApplyDeferred =>
              \A c \in Cells :
                 TileTextureIndex'[c] =
                    IF c \in HighlightedLabel THEN texture_cmds[c]
                    ELSE TypeOrZero(TileType', c)
      ]_vars

\* the highlighted tile carries a type but shows the value of the cursor,
\* which has moved on since the placement
C12_Witness ==
    /\ ran = {}
    /\ \E h \in HighlightedLabel :
          /\ h \in DOMAIN TileType
          /\ TileTextureIndex[h] # TileType[h]

\* ---- C13 ----
\* C13: a tile's orientation changes only in a run of rotate_highlighted_tile
\* over a right press while that tile is highlighted.
C13_RotationOnlyByRightPress ==
    [][ \A c \in Cells :
           TileFlip'[c] # TileFlip[c] =>
              /\ "rotate_highlighted_tile" \in ran' \ ran
              /\ c \in HighlightedLabel
              /\ Arrivals(RightPressed) # {}
      ]_vars

\* a right press has rotated the highlighted tile and left a tile rotated
\* earlier as it was
C13_Witness ==
    /\ "rotate_highlighted_tile" \in ran
    /\ Arrivals(RightPressed) # {}
    /\ flips = 2
    /\ \E h \in HighlightedLabel :
          /\ RotationState(TileFlip[h]) = 2
          /\ \E c \in Cells : RotationState(TileFlip[c]) = 1

\* ---- C14 ----
\* C14: in a frame that starts with no tile highlighted, the press handlers
\* queue and change nothing: place_highlighted_tile queues no insert,
\* rotate_highlighted_tile leaves the counter and every orientation alone,
\* neither touches the cursor, and the end of the frame changes no type.
C14_PressWithoutHoverIsNoOp ==
    [][ HighlightedLabel = {} =>
          /\ "place_highlighted_tile" \in ran' \ ran =>
                /\ place_cmds' = << >>
                /\ next_tile_texture_index' = next_tile_texture_index
          /\ "rotate_highlighted_tile" \in ran' \ ran =>
                /\ flips' = flips
                /\ TileFlip' = TileFlip
                /\ next_tile_texture_index' = next_tile_texture_index
          /\ ran' = {} => TileType' = TileType
      ]_vars

\* both presses were processed with no tile highlighted, after a tile had
\* been given a type
C14_Witness ==
    /\ ran = Systems
    /\ HighlightedLabel = {}
    /\ Arrivals(LeftPressed) # {}
    /\ Arrivals(RightPressed) # {}
    /\ DOMAIN TileType # {}

\* ---- C15 ----
\* C15: while the cursor is at its default, that is until update_cursor_pos
\* has seen a pointer position, no tile is highlighted or illuminated, no
\* tile has a type and every tile has its first orientation.
C15_SentinelResolvesToNoCell ==
    /\ (frame = 0 /\ "update_cursor_pos" \notin ran) => cursor_pos = << FarAway, FarAway >>
    /\ cursor_pos = << FarAway, FarAway >> =>
        /\ HighlightedLabel = {}
        /\ IlluminatedLabel = {}
        /\ highlight_cmds.insert_highlighted = {}
        /\ highlight_cmds.insert_illuminated = {}
        /\ DOMAIN TileType = {}
        /\ \A c \in Cells : RotationState(TileFlip[c]) = 0

\* a frame has passed and both presses were processed in the next one with
\* the cursor still at its default
C15_Witness ==
    /\ frame > 0
    /\ ran = Systems
    /\ cursor_pos = << FarAway, FarAway >>
    /\ Arrivals(LeftPressed) # {}
    /\ Arrivals(RightPressed) # {}

\* ---- C16 ----
OneLeftPress ==
    << [kind |-> "MouseButtonInput", button |-> "Left", state |-> "Pressed"] >>

\* the types after one left press placing index on the highlighted tiles
PlacedOnce(tile_types, index) ==
    ApplyPlace(tile_types,
               PlaceCommands(OneLeftPress, QueryIter(HighlightedLabel), index))

\* C16: placing twice is placing once.  The inserts a frame has queued for
\* its left presses give the types one left press gives, and a second left
\* press in the next frame, with the cursor and the highlighted tile as they
\* were, gives the same types again.
C16_PlacementIdempotent ==
    /\ (ran = Systems /\ place_cmds # << >>) =>
          ApplyPlace(TileType, place_cmds)
              = PlacedOnce(TileType, place_cmds[1].texture_index)
    /\ PlacedOnce(PlacedOnce(TileType, next_tile_texture_index),
                  next_tile_texture_index)
          = PlacedOnce(TileType, next_tile_texture_index)

\* two left presses of one frame were processed on a highlighted tile that
\* carries another type
C16_Witness ==
    /\ ran = Systems
    /\ Cardinality(Arrivals(LeftPressed)) = 2
    /\ Len(place_cmds) = 2
    /\ \E h \in HighlightedLabel :
          /\ h \in DOMAIN TileType
          /\ TileType[h] # place_cmds[1].texture_index

\* ---- C17 ----
\* C17: a frame whose button and key events are all releases, or presses of
\* another button or key, changes no type, no orientation, neither the cursor
\* nor the rotation counter, and queues no insert.
C17_OtherEventsIgnored ==
    [][ (/\ Arrivals(LeftPressed) = {}
         /\ Arrivals(RightPressed) = {}
         /\ Arrivals(SpacePressed) = {}) =>
            /\ TileType' = TileType
            /\ TileFlip' = TileFlip
            /\ next_tile_texture_index' = next_tile_texture_index
            /\ flips' = flips
            /\ place_cmds' = << >>
      ]_vars

\* a release and a press of another button or key were processed with a tile
\* highlighted
C17_Witness ==
    /\ ran = Systems
    /\ HighlightedLabel # {}
    /\ \E i \in DOMAIN arrived : arrived[i].kind # "CursorMoved" /\ arrived[i].state = "Released"
    /\ \E i \in DOMAIN arrived : arrived[i].kind # "CursorMoved" /\ arrived[i].state = "Pressed"
    /\ Arrivals(LeftPressed) = {}
    /\ Arrivals(RightPressed) = {}
    /\ Arrivals(SpacePressed) = {}

\* ---- C18 ----
\* coordinates probed on each axis: far away, around both grid bounds, around
\* tile boundaries and tile centres
ProbeCoordinates ==
    { -1000, -449, -448, -447, -321, -320, -319, -65, -64, -63, -1, 0, 1,
      63, 64, 65, 319, 320, 446, 447, 448, 449, 1000 }

\* the resolver alone: the cursor rests at any probed position and the frames
\* run without input
InitResolver ==
    /\ cursor_pos \in ProbeCoordinates \X ProbeCoordinates
    /\ next_tile_texture_index = FirstTextureIndex
    /\ flips = 0
    /\ HighlightedLabel = {}
    /\ IlluminatedLabel = {}
    /\ TileType = [ t \in {} |-> 0 ]
    /\ TileFlip = [ t \in Cells |-> TileFlipDefault ]
    /\ TileColor = [ t \in Cells |-> "WHITE" ]
    /\ TileTextureIndex = [ t \in Cells |-> 0 ]
    /\ cursor_in_map_pos = CursorInMapPos(CursorPosDefault)
    /\ highlight_cmds = NoHighlightCmds
    /\ place_cmds = << >>
    /\ illuminate_cmds = NoIlluminateCmds
    /\ texture_cmds = NoTextureCmds
    /\ arrived = << >>
    /\ ran = {}
    /\ frame = 0

NextResolver ==
    \/ update_cursor_pos
    \/ highlight_tile_labels
    \/ apply_tile_textures
    \/ cycle_tile_texture_index
    \/ place_highlighted_tile
    \/ rotate_highlighted_tile
    \/ illuminate_tiles
    \/ ApplyDeferred

SpecResolver == InitResolver /\ [][NextResolver]_vars

\* C18: once highlight_tile_labels has run on a position, the tile it resolved
\* is, for a position inside the grid's bounds, the one tile whose indices are
\* the floor of the distance from the grid's lower-left corner divided by the
\* tile size, both within 0..6, and for a position outside them no tile.
C18_ResolverFloorDivides ==
    "highlight_tile_labels" \in ran =>
      /\ InsideGrid(cursor_pos) => Cardinality(highlight_cmds.insert_highlighted) = 1
      /\ highlight_cmds.insert_highlighted =
            IF InsideGrid(cursor_pos)
            THEN { t \in Cells :
                     /\ t[1] = (cursor_pos[1] + GridHalf) \div TileSize
                     /\ t[2] = (cursor_pos[2] + GridHalf) \div TileSize }
            ELSE {}

\* positions one unit inside the upper bounds resolve to the last tile
C18_Witness ==
    /\ "highlight_tile_labels" \in ran
    /\ cursor_pos = << 447, 447 >>
    /\ highlight_cmds.insert_highlighted = { << MapSize - 1, MapSize - 1 >> }

\* ---- C19 ----
\* C19: no tile is highlighted and illuminated at once.
C19_HoveredNotIlluminated == HighlightedLabel \cap IlluminatedLabel = {}

\* the hover has moved onto a tile that was illuminated in the frame before
C19_Witness ==
    \E h \in HighlightedLabel :
        /\ TileColor[h] = "ORANGE_RED"
        /\ IlluminatedLabel # {}

\* ---- C20 ----
\* the labels are those of the tile under the cursor
LabelsMatchCursor ==
    /\ HighlightedLabel = CellContaining(cursor_pos)
    /\ IlluminatedLabel = UNION { Adjacent(h) : h \in CellContaining(cursor_pos) }

\* the colours are those of the illumination, every tile that is not
\* highlighted shows its type and the highlighted tile shows the cursor
OutputsMatchLabels ==
    /\ \A c \in Cells : TileColor[c] = "ORANGE_RED" <=> c \in IlluminatedLabel
    /\ \A c \in Cells \ HighlightedLabel :
          TileTextureIndex[c] = TypeOrZero(TileType, c)
    /\ \A c \in HighlightedLabel : TileTextureIndex[c] = next_tile_texture_index

\* C20: the outputs settle within two frames without input.  The end of a
\* frame without input leaves the labels of the tile under the cursor; if the
\* frame started with these labels, it also leaves colours and texture
\* indices that match them; and if it started with all of this in place, it
\* changes no label, colour, texture index, type or orientation.
C20_SettlesInTwoQuietFrames ==
    [][ (ran = Systems /\ arrived = << >>) =>
          /\ LabelsMatchCursor'
          /\ LabelsMatchCursor =>
                /\ OutputsMatchLabels'
                /\ HighlightedLabel' = HighlightedLabel
                /\ IlluminatedLabel' = IlluminatedLabel
          /\ (LabelsMatchCursor /\ OutputsMatchLabels) =>
                UNCHANGED << TileColor, TileTextureIndex, TileType, TileFlip >>
      ]_vars

\* the second frame without input is about to end: the labels already follow
\* the cursor, a colour is still that of the frame before
C20_Witness ==
    /\ ran = Systems
    /\ arrived = << >>
    /\ frame > 0
    /\ HighlightedLabel # {}
    /\ LabelsMatchCursor
    /\ \E c \in IlluminatedLabel : TileColor[c] = "WHITE"
    /\ DOMAIN TileType # {}

====
